---- MODULE Spec2Model ----
(***************************************************************************)
(* Model of the foodgram backend's fgapp: the recipe view set, the three   *)
(* membership toggles (favorite, shopping cart, subscribe), the            *)
(* subscriptions list and the recipe / ingredient filters.                 *)
(*                                                                         *)
(* One HTTP request is one action: the synchronous framework runs each     *)
(* request to completion.  `response` records the last request and its     *)
(* answer.                                                                 *)
(***************************************************************************)
EXTENDS Integers, Sequences, FiniteSets, TLC

\* ------------------------------------------------------------------ bounds
\* Number of recipes the store holds at most (primary keys 1..MaxRecipes).
MaxRecipes == 2
\* Largest numeric value sent for the is_favorited / is_in_shopping_cart flags.
MaxFlag == 1
\* Longest ingredient name and search prefix, in characters.
MaxNameLen == 2

\* ------------------------------------------------------------------ universe
Users == {"alice", "bob"}
AnonymousUser == "AnonymousUser"
Callers == Users \cup {AnonymousUser}
\* A path id that names no user.
NoSuchUser == "ghost"
UserPaths == Users \cup {NoSuchUser}
RecipePks == 1..MaxRecipes
\* Path ids; MaxRecipes + 1 never names a recipe.
RecipePaths == 1..(MaxRecipes + 1)
Tags == {"breakfast", "lunch"}
\* A slug that is not in the Tag table.
UnknownSlug == "dinner"

VARIABLES recipes, favorites, shopping_cart, subscribes, ingredients, response

vars == <<recipes, favorites, shopping_cart, subscribes, ingredients, response>>

\* ------------------------------------------------------------------ helpers
\* request.user.is_authenticated
is_authenticated(user) == user # AnonymousUser

\* Python's None as a query result, and a queryset holding `rows`.
NoneValue == [none |-> TRUE, rows |-> {}]
QuerySet(rows) == [none |-> FALSE, rows |-> rows]

\* get_object_or_404(Recipe, id=recipe_id): whether the lookup finds the row.
RecipeExists(recipe_id) == recipe_id \in DOMAIN recipes

\* get_object_or_404(User, id=user_id): whether the lookup finds the row.
UserExists(user_id) == user_id \in Users

\* A membership table with no rows: the number of rows per (user, target).
EmptyTable(targets) == [p \in Users \X targets |-> 0]

\* The permission classes of the membership and subscription views
\* (RecipeAuthor, SubscribeOwner): the caller must be logged in.
MembershipPermission(user) == is_authenticated(user)

\* ------------------------------------------------------------------ membership: delete
\* get_object_or_404(Model, user=..., target=...) over a table holding n rows
\* for the pair: no row raises Http404, one row is returned, several rows
\* raise MultipleObjectsReturned.
MembershipLookup(n) ==
    IF n = 0 THEN "Http404" ELSE IF n = 1 THEN "found" ELSE "MultipleObjectsReturned"

\* Faulty variant of FavoriteRecipeViewSet.delete: the row lookup forgets the
\* user and every user's favorite row of the recipe is removed.
FavoriteDeleteAllOfRecipe(user, recipe_id) ==
    IF ~RecipeExists(recipe_id)
    THEN [status |-> 404, errors |-> <<>>, table |-> favorites]
    ELSE IF MembershipLookup(favorites[<<user, recipe_id>>]) = "Http404"
    THEN [status |-> 400,
          errors |-> <<"absent_from_favorites", recipes[recipe_id].name>>,
          table |-> favorites]
    ELSE [status |-> 204, errors |-> <<>>,
          table |-> [p \in DOMAIN favorites |->
                        IF p[2] = recipe_id THEN 0 ELSE favorites[p]]]

\* FavoriteRecipeViewSet.delete
FavoriteRecipeViewSet_delete(user, recipe_id) ==
    IF ~RecipeExists(recipe_id)
    THEN [status |-> 404, errors |-> <<>>, table |-> favorites]
    ELSE LET recipe == recipes[recipe_id]
             found == MembershipLookup(favorites[<<user, recipe_id>>])
         IN  IF found = "Http404"
             THEN [status |-> 400,
                   errors |-> <<"absent_from_favorites", recipe.name>>,
                   table |-> favorites]
             ELSE IF found = "MultipleObjectsReturned"
             THEN [status |-> 500, errors |-> <<>>, table |-> favorites]
             ELSE [status |-> 204, errors |-> <<>>,
                   table |-> [favorites EXCEPT ![<<user, recipe_id>>] = 0]]

\* ShoppingCartViewSet.delete
ShoppingCartViewSet_delete(user, recipe_id) ==
    IF ~RecipeExists(recipe_id)
    THEN [status |-> 404, errors |-> <<>>, table |-> shopping_cart]
    ELSE LET recipe == recipes[recipe_id]
             found == MembershipLookup(shopping_cart[<<user, recipe_id>>])
         IN  IF found = "Http404"
             THEN [status |-> 400,
                   errors |-> <<"absent_from_shopping_list", recipe.name>>,
                   table |-> shopping_cart]
             ELSE IF found = "MultipleObjectsReturned"
             THEN [status |-> 500, errors |-> <<>>, table |-> shopping_cart]
             ELSE [status |-> 204, errors |-> <<>>,
                   table |-> [shopping_cart EXCEPT ![<<user, recipe_id>>] = 0]]

\* SubscribeViewSet.delete
SubscribeViewSet_delete(user, user_id) ==
    IF ~UserExists(user_id)
    THEN [status |-> 404, errors |-> <<>>, table |-> subscribes]
    ELSE LET author_for_unsubs == user_id
             found == MembershipLookup(subscribes[<<user, author_for_unsubs>>])
         IN  IF found = "Http404"
             THEN [status |-> 400,
                   errors |-> <<"absent_from_subscriptions", author_for_unsubs>>,
                   table |-> subscribes]
             ELSE IF found = "MultipleObjectsReturned"
             THEN [status |-> 500, errors |-> <<>>, table |-> subscribes]
             ELSE [status |-> 204, errors |-> <<>>,
                   table |-> [subscribes EXCEPT ![<<user, author_for_unsubs>>] = 0]]

\* ------------------------------------------------------------------ membership: create
\* Faulty variant of the create side: no check for a row that is present.
MembershipCreateNoDuplicateCheck(table, user, target, exists) ==
    IF ~exists
    THEN [status |-> 404, table |-> table]
    ELSE [status |-> 201,
          table |-> [table EXCEPT ![<<user, target>>] = @ + 1]]

\* The create side of a toggle (CreateModelMixin.create with the toggle's
\* serializer): an unknown target is not found, a pair that is already
\* present is rejected, otherwise one row is inserted.
MembershipCreate(table, user, target, exists) ==
    IF ~exists
    THEN [status |-> 404, table |-> table]
    ELSE IF table[<<user, target>>] > 0
    THEN [status |-> 400, table |-> table]
    ELSE [status |-> 201,
          table |-> [table EXCEPT ![<<user, target>>] = @ + 1]]

\* Subscribing to oneself is refused.
SubscribeCreate(user, user_id) ==
    IF UserExists(user_id) /\ user = user_id
    THEN [status |-> 400, table |-> subscribes]
    ELSE MembershipCreate(subscribes, user, user_id, UserExists(user_id))

\* ------------------------------------------------------------------ subscriptions list
\* request.user.subscriber.all(): the Subscribe rows whose user is the caller.
subscriber(user) == {p \in DOMAIN subscribes : p[1] = user /\ subscribes[p] > 0}

\* Faulty variant of SubscriptionsViewSet.get_queryset: the rows are taken
\* from the other side of the relation (the caller's followers).
SubscriptionsOfFollowers(user) ==
    LET subs_query == {p \in DOMAIN subscribes : p[2] = user /\ subscribes[p] > 0}
        subs_id_list == {p[1] : p \in subs_query}
    IN  {u \in Users : u \in subs_id_list}

\* SubscriptionsViewSet.get_queryset
SubscriptionsViewSet_get_queryset(user) ==
    LET subs_query == subscriber(user)
        subs_id_list == {p[2] : p \in subs_query}
    IN  {u \in Users : u \in subs_id_list}

\* ------------------------------------------------------------------ recipe list
\* The annotated queryset built by RecipeViewSet.get_queryset.
AnnotatedRecipes(user) ==
    IF is_authenticated(user)
    THEN {[pk |-> pk,
           is_favorited |-> favorites[<<user, pk>>] > 0,
           is_in_shopping_cart |-> shopping_cart[<<user, pk>>] > 0]
          : pk \in DOMAIN recipes}
    ELSE {[pk |-> pk, is_favorited |-> FALSE, is_in_shopping_cart |-> FALSE]
          : pk \in DOMAIN recipes}

\* RecipeViewSet.get_queryset: builds the annotated queryset and ends in a
\* bare `return`, so its value is None.
RecipeViewSet_get_queryset(user) ==
    LET queryset == AnnotatedRecipes(user)
    IN  NoneValue

\* ------------------------------------------------------------------ actions: toggles
FavoriteDelete(user, recipe_id) ==
    /\ LET r == FavoriteRecipeViewSet_delete(user, recipe_id)
       IN  IF ~MembershipPermission(user)
           THEN /\ favorites' = favorites
                /\ response' = [op |-> "favorite_delete", user |-> user,
                                recipe_id |-> recipe_id, status |-> 401,
                                errors |-> <<>>]
           ELSE /\ favorites' = r.table
                /\ response' = [op |-> "favorite_delete", user |-> user,
                                recipe_id |-> recipe_id, status |-> r.status,
                                errors |-> r.errors]
    /\ UNCHANGED <<recipes, shopping_cart, subscribes, ingredients>>

ShoppingCartDelete(user, recipe_id) ==
    /\ LET r == ShoppingCartViewSet_delete(user, recipe_id)
       IN  IF ~MembershipPermission(user)
           THEN /\ shopping_cart' = shopping_cart
                /\ response' = [op |-> "shopping_cart_delete", user |-> user,
                                recipe_id |-> recipe_id, status |-> 401,
                                errors |-> <<>>]
           ELSE /\ shopping_cart' = r.table
                /\ response' = [op |-> "shopping_cart_delete", user |-> user,
                                recipe_id |-> recipe_id, status |-> r.status,
                                errors |-> r.errors]
    /\ UNCHANGED <<recipes, favorites, subscribes, ingredients>>

SubscribeDelete(user, user_id) ==
    /\ LET r == SubscribeViewSet_delete(user, user_id)
       IN  IF ~MembershipPermission(user)
           THEN /\ subscribes' = subscribes
                /\ response' = [op |-> "subscribe_delete", user |-> user,
                                user_id |-> user_id, status |-> 401,
                                errors |-> <<>>]
           ELSE /\ subscribes' = r.table
                /\ response' = [op |-> "subscribe_delete", user |-> user,
                                user_id |-> user_id, status |-> r.status,
                                errors |-> r.errors]
    /\ UNCHANGED <<recipes, favorites, shopping_cart, ingredients>>

FavoriteCreate(user, recipe_id) ==
    /\ LET r == MembershipCreate(favorites, user, recipe_id, RecipeExists(recipe_id))
       IN  IF ~MembershipPermission(user)
           THEN /\ favorites' = favorites
                /\ response' = [op |-> "favorite_create", user |-> user,
                                recipe_id |-> recipe_id, status |-> 401]
           ELSE /\ favorites' = r.table
                /\ response' = [op |-> "favorite_create", user |-> user,
                                recipe_id |-> recipe_id, status |-> r.status]
    /\ UNCHANGED <<recipes, shopping_cart, subscribes, ingredients>>

ShoppingCartCreate(user, recipe_id) ==
    /\ LET r == MembershipCreate(shopping_cart, user, recipe_id,
                                 RecipeExists(recipe_id))
       IN  IF ~MembershipPermission(user)
           THEN /\ shopping_cart' = shopping_cart
                /\ response' = [op |-> "shopping_cart_create", user |-> user,
                                recipe_id |-> recipe_id, status |-> 401]
           ELSE /\ shopping_cart' = r.table
                /\ response' = [op |-> "shopping_cart_create", user |-> user,
                                recipe_id |-> recipe_id, status |-> r.status]
    /\ UNCHANGED <<recipes, favorites, subscribes, ingredients>>

SubscribeCreateRequest(user, user_id) ==
    /\ LET r == SubscribeCreate(user, user_id)
       IN  IF ~MembershipPermission(user)
           THEN /\ subscribes' = subscribes
                /\ response' = [op |-> "subscribe_create", user |-> user,
                                user_id |-> user_id, status |-> 401]
           ELSE /\ subscribes' = r.table
                /\ response' = [op |-> "subscribe_create", user |-> user,
                                user_id |-> user_id, status |-> r.status]
    /\ UNCHANGED <<recipes, favorites, shopping_cart, ingredients>>

SubscriptionsList(user) ==
    /\ response' = IF ~MembershipPermission(user)
                   THEN [op |-> "subscriptions", user |-> user, status |-> 401,
                         body |-> {}]
                   ELSE [op |-> "subscriptions", user |-> user, status |-> 200,
                         body |-> SubscriptionsViewSet_get_queryset(user)]
    /\ UNCHANGED <<recipes, favorites, shopping_cart, subscribes, ingredients>>

RecipeList(user) ==
    /\ response' = [op |-> "recipe_get_queryset", user |-> user,
                    body |-> RecipeViewSet_get_queryset(user)]
    /\ UNCHANGED <<recipes, favorites, shopping_cart, subscribes, ingredients>>

\* ------------------------------------------------------------------ toggle specification
\* The store after alice published "soup" and bob published "pie".
SeededRecipes ==
    << [author |-> "alice", name |-> "soup", tags |-> {"lunch"}],
       [author |-> "bob", name |-> "pie", tags |-> {}] >>

InitToggle ==
    /\ recipes = SeededRecipes
    /\ favorites = EmptyTable(RecipePks)
    /\ shopping_cart = EmptyTable(RecipePks)
    /\ subscribes = EmptyTable(Users)
    /\ ingredients = {}
    /\ response = [op |-> "none"]

NextToggle ==
    \/ \E user \in Callers, recipe_id \in RecipePaths : FavoriteCreate(user, recipe_id)
    \/ \E user \in Callers, recipe_id \in RecipePaths : FavoriteDelete(user, recipe_id)
    \/ \E user \in Callers, recipe_id \in RecipePaths : ShoppingCartCreate(user, recipe_id)
    \/ \E user \in Callers, recipe_id \in RecipePaths : ShoppingCartDelete(user, recipe_id)
    \/ \E user \in Callers, user_id \in UserPaths : SubscribeCreateRequest(user, user_id)
    \/ \E user \in Callers, user_id \in UserPaths : SubscribeDelete(user, user_id)
    \/ \E user \in Callers : SubscriptionsList(user)
    \/ \E user \in Callers : RecipeList(user)

SpecToggle == InitToggle /\ [][NextToggle]_vars

\* ------------------------------------------------------------------ recipe filters
\* Faulty variant of filter_is_favorited: the join forgets the user.
filter_is_favorited_by_anyone(queryset, value, user) ==
    IF value # 0 /\ is_authenticated(user)
    THEN QuerySet({pk \in queryset : \E u \in Users : favorites[<<u, pk>>] > 0})
    ELSE QuerySet(queryset)

\* RecipeFilterSet.filter_is_favorited: queryset.filter(favorites__user=user)
\* keeps the recipes that have a FavoriteRecipe row of the user.
filter_is_favorited(queryset, value, user) ==
    IF value # 0 /\ is_authenticated(user)
    THEN QuerySet({pk \in queryset : favorites[<<user, pk>>] > 0})
    ELSE QuerySet(queryset)

\* RecipeFilterSet.filter_is_in_shopping_cart: the fall-through path is a
\* bare `return`.
filter_is_in_shopping_cart(queryset, value, user) ==
    IF value # 0 /\ is_authenticated(user)
    THEN QuerySet({pk \in queryset : shopping_cart[<<user, pk>>] > 0})
    ELSE NoneValue

\* is_favorited = NumberFilter(method=...): a parameter that is absent (an
\* empty value) leaves the queryset alone without calling the method.
is_favorited(queryset, param, user) ==
    IF ~param.present
    THEN QuerySet(queryset)
    ELSE filter_is_favorited(queryset, param.value, user)

\* is_in_shopping_cart = NumberFilter(method=...)
is_in_shopping_cart(queryset, param, user) ==
    IF ~param.present
    THEN QuerySet(queryset)
    ELSE filter_is_in_shopping_cart(queryset, param.value, user)

\* The flag parameter of a request: absent, or a number 0..MaxFlag.
FlagParams ==
    {[present |-> FALSE, value |-> 0]}
        \cup {[present |-> TRUE, value |-> v] : v \in 0..MaxFlag}

FilterIsFavorited(user, queryset, param) ==
    /\ response' = [op |-> "filter_is_favorited", user |-> user,
                    queryset |-> queryset, param |-> param,
                    body |-> is_favorited(queryset, param, user)]
    /\ UNCHANGED <<recipes, favorites, shopping_cart, subscribes, ingredients>>

FilterIsInShoppingCart(user, queryset, param) ==
    /\ response' = [op |-> "filter_is_in_shopping_cart", user |-> user,
                    queryset |-> queryset, param |-> param,
                    body |-> is_in_shopping_cart(queryset, param, user)]
    /\ UNCHANGED <<recipes, favorites, shopping_cart, subscribes, ingredients>>

\* Membership tables over the seeded recipes with at most one row per pair.
SeededTables ==
    {[p \in Users \X RecipePks |-> IF p[2] \in DOMAIN SeededRecipes THEN t[p] ELSE 0]
        : t \in [Users \X DOMAIN SeededRecipes -> {0, 1}]}

InitFilter ==
    /\ recipes = SeededRecipes
    /\ favorites \in SeededTables
    /\ shopping_cart \in SeededTables
    /\ subscribes = EmptyTable(Users)
    /\ ingredients = {}
    /\ response = [op |-> "none"]

NextFilter ==
    \/ \E user \in Callers, queryset \in SUBSET DOMAIN recipes, param \in FlagParams :
           FilterIsFavorited(user, queryset, param)
    \/ \E user \in Callers, queryset \in SUBSET DOMAIN recipes, param \in FlagParams :
           FilterIsInShoppingCart(user, queryset, param)

SpecFilter == InitFilter /\ [][NextFilter]_vars

\* ------------------------------------------------------------------ recipe view set
\* permissions.SAFE_METHODS
SAFE_METHODS == {"GET", "HEAD", "OPTIONS"}

\* AuthorOrReadOnly.has_permission: reads are open, writes need a logged-in
\* caller.
AuthorOrReadOnly_has_permission(method, user) ==
    method \in SAFE_METHODS \/ is_authenticated(user)

\* RecipeGetSerializer(instance=...).data
RecipeGetSerializer(pk, instance) ==
    [id |-> pk, author |-> instance.author, name |-> instance.name,
     tags |-> instance.tags]

\* Faulty variant of perform_create: the author is taken from the payload.
perform_create_payload_author(user, payload) ==
    [author |-> payload.author, name |-> payload.name, tags |-> payload.tags]

\* RecipeViewSet.perform_create: serializer.save(author=self.request.user)
RecipeViewSet_perform_create(user, payload) ==
    [author |-> user, name |-> payload.name, tags |-> payload.tags]

\* RecipeViewSet.create
RecipeViewSet_create(user, payload) ==
    IF ~AuthorOrReadOnly_has_permission("POST", user)
    THEN [status |-> 401, recipes |-> recipes, body |-> <<>>]
    ELSE IF ~payload.valid
    THEN [status |-> 400, recipes |-> recipes, body |-> <<>>]
    ELSE LET instance == RecipeViewSet_perform_create(user, payload)
             pk == Len(recipes) + 1
         IN  [status |-> 201, recipes |-> Append(recipes, instance),
              body |-> <<RecipeGetSerializer(pk, instance)>>]

\* RecipeViewSet.perform_update: serializer.save(author=self.request.user)
RecipeViewSet_perform_update(user, payload) ==
    [author |-> user, name |-> payload.name, tags |-> payload.tags]

\* RecipeViewSet.partial_update: the recipe is fetched with
\* get_object_or_404(Recipe, pk=pk), not with get_object(), the only place
\* where the framework evaluates a permission class's object-level check
\* (the author's ownership); the view-level check above is all that runs.
RecipeViewSet_partial_update(user, pk, payload) ==
    IF ~AuthorOrReadOnly_has_permission("PATCH", user)
    THEN [status |-> 401, recipes |-> recipes, body |-> <<>>]
    ELSE IF ~RecipeExists(pk)
    THEN [status |-> 404, recipes |-> recipes, body |-> <<>>]
    ELSE IF ~payload.valid
    THEN [status |-> 400, recipes |-> recipes, body |-> <<>>]
    ELSE LET instance == RecipeViewSet_perform_update(user, payload)
         IN  [status |-> 200, recipes |-> [recipes EXCEPT ![pk] = instance],
              body |-> <<RecipeGetSerializer(pk, instance)>>]

\* Faulty variant of the tags filter: the slugs are AND'ed (conjoined=True).
tags_conjoined(queryset, slugs) ==
    IF ~(slugs \subseteq Tags)
    THEN [status |-> 400, rows |-> {}]
    ELSE IF slugs = {}
    THEN [status |-> 200, rows |-> queryset]
    ELSE [status |-> 200,
          rows |-> {pk \in queryset : slugs \subseteq recipes[pk].tags}]

\* RecipeFilterSet.tags = ModelMultipleChoiceFilter(field_name='tags__slug',
\* to_field_name='slug', queryset=Tag.objects.all()): a slug outside the Tag
\* table fails validation, no slug leaves the queryset alone, several slugs
\* are OR'd and the result is distinct.
tags(queryset, slugs) ==
    IF ~(slugs \subseteq Tags)
    THEN [status |-> 400, rows |-> {}]
    ELSE IF slugs = {}
    THEN [status |-> 200, rows |-> queryset]
    ELSE [status |-> 200,
          rows |-> {pk \in queryset : \E slug \in slugs : slug \in recipes[pk].tags}]

\* The recipe forms a client submits.
RecipeForms ==
    {[name |-> "soup", tags |-> {"lunch"}], [name |-> "pie", tags |-> {}]}

\* The bodies a create or update request carries: an author id, the form
\* fields, and whether the serializer accepts them.
Payloads ==
    {[author |-> a, name |-> f.name, tags |-> f.tags, valid |-> v]
        : a \in Users, f \in RecipeForms, v \in BOOLEAN}

RecipeCreate(user, payload) ==
    /\ Len(recipes) < MaxRecipes
    /\ LET r == RecipeViewSet_create(user, payload)
       IN  /\ recipes' = r.recipes
           /\ response' = [op |-> "recipe_create", user |-> user,
                           payload |-> payload, status |-> r.status,
                           body |-> r.body]
    /\ UNCHANGED <<favorites, shopping_cart, subscribes, ingredients>>

RecipePartialUpdate(user, pk, payload) ==
    /\ LET r == RecipeViewSet_partial_update(user, pk, payload)
       IN  /\ recipes' = r.recipes
           /\ response' = [op |-> "recipe_partial_update", user |-> user,
                           pk |-> pk, payload |-> payload, status |-> r.status,
                           body |-> r.body]
    /\ UNCHANGED <<favorites, shopping_cart, subscribes, ingredients>>

InitRecipes ==
    /\ recipes = <<>>
    /\ favorites = EmptyTable(RecipePks)
    /\ shopping_cart = EmptyTable(RecipePks)
    /\ subscribes = EmptyTable(Users)
    /\ ingredients = {}
    /\ response = [op |-> "none"]

NextRecipes ==
    \/ \E user \in Callers, payload \in Payloads : RecipeCreate(user, payload)
    \/ \E user \in Callers, pk \in RecipePaths, payload \in Payloads :
           RecipePartialUpdate(user, pk, payload)

SpecRecipes == InitRecipes /\ [][NextRecipes]_vars

\* ------------------------------------------------------------------ tag filter
FilterTags(queryset, slugs) ==
    /\ LET r == tags(queryset, slugs)
       IN  response' = [op |-> "filter_tags", queryset |-> queryset,
                        slugs |-> slugs, status |-> r.status, body |-> r.rows]
    /\ UNCHANGED <<recipes, favorites, shopping_cart, subscribes, ingredients>>

\* The seeded recipes under every tagging.
TaggedRecipes ==
    {[pk \in DOMAIN SeededRecipes |-> [SeededRecipes[pk] EXCEPT !.tags = t[pk]]]
        : t \in [DOMAIN SeededRecipes -> SUBSET Tags]}

InitTags ==
    /\ recipes \in TaggedRecipes
    /\ favorites = EmptyTable(RecipePks)
    /\ shopping_cart = EmptyTable(RecipePks)
    /\ subscribes = EmptyTable(Users)
    /\ ingredients = {}
    /\ response = [op |-> "none"]

NextTags ==
    \E queryset \in SUBSET DOMAIN recipes, slugs \in SUBSET (Tags \cup {UnknownSlug}) :
        FilterTags(queryset, slugs)

SpecTags == InitTags /\ [][NextTags]_vars

\* ------------------------------------------------------------------ ingredient search
Alphabet == {"m", "M", "a"}

\* Case folding of one character.
Lower(c) == IF c = "M" THEN "m" ELSE c

\* Names and search prefixes: the strings of 1..MaxNameLen characters.
Names == UNION {[1..n -> Alphabet] : n \in 1..MaxNameLen}

\* lookup_expr='icontains': the value occurs anywhere in the name.
icontains(name, value) ==
    \E k \in 0..(Len(name) - Len(value)) :
        \A i \in 1..Len(value) : Lower(name[k + i]) = Lower(value[i])

\* lookup_expr='istartswith'
istartswith(name, value) ==
    /\ Len(value) <= Len(name)
    /\ \A i \in 1..Len(value) : Lower(name[i]) = Lower(value[i])

\* IngredientSearchFilter.name = CharFilter(lookup_expr='istartswith'): an
\* empty value leaves the queryset alone.
IngredientSearchFilter_name(queryset, value) ==
    IF value = <<>>
    THEN queryset
    ELSE {name \in queryset : istartswith(name, value)}

IngredientSearch(value) ==
    /\ response' = [op |-> "ingredient_search", name |-> value,
                    body |-> IngredientSearchFilter_name(ingredients, value)]
    /\ UNCHANGED <<recipes, favorites, shopping_cart, subscribes, ingredients>>

\* The Ingredient table holds one or two of the names.
IngredientTables == {{a, b} : a \in Names, b \in Names}

InitIngredients ==
    /\ recipes = <<>>
    /\ favorites = EmptyTable(RecipePks)
    /\ shopping_cart = EmptyTable(RecipePks)
    /\ subscribes = EmptyTable(Users)
    /\ ingredients \in IngredientTables
    /\ response = [op |-> "none"]

NextIngredients ==
    \E value \in Names \cup {<<>>} : IngredientSearch(value)

SpecIngredients == InitIngredients /\ [][NextIngredients]_vars

\* ================================================================== claims

\* ------------------------------------------------------------------ C1
\* C1: the recipe list/retrieve operation (RecipeViewSet.get_queryset)
\* returns the full recipe set, each recipe carrying is_favorited and
\* is_in_shopping_cart equal to the existence of the caller's FavoriteRecipe
\* and ShoppingCart row, and both false for an anonymous caller.
C1_FlagsMatchMembership ==
    response.op = "recipe_get_queryset" =>
        /\ ~response.body.none
        /\ {row.pk : row \in response.body.rows} = DOMAIN recipes
        /\ \A row \in response.body.rows :
              IF response.user \in Users
              THEN /\ row.is_favorited = (favorites[<<response.user, row.pk>>] > 0)
                   /\ row.is_in_shopping_cart
                         = (shopping_cart[<<response.user, row.pk>>] > 0)
              ELSE ~row.is_favorited /\ ~row.is_in_shopping_cart

\* ------------------------------------------------------------------ C2
DeleteOutcome(user, target, exists, name, table, table_after, status, errors) ==
    IF ~exists
    THEN status = 404 /\ table_after = table
    ELSE IF table[<<user, target>>] = 0
    THEN /\ status = 400
         /\ Len(errors) = 2 /\ errors[2] = name
         /\ table_after = table
    ELSE /\ status = 204
         /\ table_after[<<user, target>>] = 0
         /\ \A p \in DOMAIN table : p # <<user, target>> => table_after[p] = table[p]

DeleteStep ==
    LET r == response'
    IN  /\ (r.op = "favorite_delete" /\ r.user \in Users) =>
              /\ DeleteOutcome(r.user, r.recipe_id, r.recipe_id \in DOMAIN recipes,
                               IF r.recipe_id \in DOMAIN recipes
                               THEN recipes[r.recipe_id].name ELSE "",
                               favorites, favorites', r.status, r.errors)
              /\ UNCHANGED <<recipes, shopping_cart, subscribes>>
        /\ (r.op = "shopping_cart_delete" /\ r.user \in Users) =>
              /\ DeleteOutcome(r.user, r.recipe_id, r.recipe_id \in DOMAIN recipes,
                               IF r.recipe_id \in DOMAIN recipes
                               THEN recipes[r.recipe_id].name ELSE "",
                               shopping_cart, shopping_cart', r.status, r.errors)
              /\ UNCHANGED <<recipes, favorites, subscribes>>
        /\ (r.op = "subscribe_delete" /\ r.user \in Users) =>
              /\ DeleteOutcome(r.user, r.user_id, r.user_id \in Users, r.user_id,
                               subscribes, subscribes', r.status, r.errors)
              /\ UNCHANGED <<recipes, favorites, shopping_cart>>

\* C2: a delete request of a membership toggle by caller U on path id T
\* answers 404 and changes no row when T does not exist; else 400 with an
\* error naming the target and no change when no row (U, T) exists; else 204
\* with exactly the row (U, T) of that table removed, so that the pair is
\* absent for a repeated delete.
C2_DeleteOutcomes == [][DeleteStep]_vars

\* A favorite was removed with 204 while the caller's cart row for the same
\* recipe and another favorite row stayed.
C2_Witness ==
    /\ response.op = "favorite_delete"
    /\ response.status = 204
    /\ favorites[<<response.user, response.recipe_id>>] = 0
    /\ shopping_cart[<<response.user, response.recipe_id>>] = 1
    /\ \E p \in DOMAIN favorites : favorites[p] = 1

\* ------------------------------------------------------------------ C7
AtMostOneRow ==
    /\ \A p \in DOMAIN favorites : favorites[p] <= 1
    /\ \A p \in DOMAIN shopping_cart : shopping_cart[p] <= 1
    /\ \A p \in DOMAIN subscribes : subscribes[p] <= 1

DuplicateAddRejected ==
    LET r == response'
    IN  /\ (/\ r.op = "favorite_create" /\ r.user \in Users
             /\ r.recipe_id \in DOMAIN recipes
             /\ favorites[<<r.user, r.recipe_id>>] > 0)
              => r.status = 400 /\ favorites' = favorites
        /\ (/\ r.op = "shopping_cart_create" /\ r.user \in Users
             /\ r.recipe_id \in DOMAIN recipes
             /\ shopping_cart[<<r.user, r.recipe_id>>] > 0)
              => r.status = 400 /\ shopping_cart' = shopping_cart
        /\ (/\ r.op = "subscribe_create" /\ r.user \in Users
             /\ r.user_id \in Users
             /\ subscribes[<<r.user, r.user_id>>] > 0)
              => r.status = 400 /\ subscribes' = subscribes

C8_SubscriptionsExact ==
    (response.op = "subscriptions" /\ response.status = 200) =>
        /\ \A b \in response.body : subscribes[<<response.user, b>>] > 0
        /\ \A b \in Users : subscribes[<<response.user, b>>] > 0 => b \in response.body

\* alice lists her subscriptions and gets exactly bob, whom she follows and
\* who does not follow her.
C8_Witness ==
    /\ response.op = "subscriptions"
    /\ response.status = 200
    /\ response.user = "alice"
    /\ response.body = {"bob"}
    /\ subscribes[<<"alice", "bob">>] = 1
    /\ subscribes[<<"bob", "alice">>] = 0

\* ------------------------------------------------------------------ C3
OwnerOnlyStep ==
    LET r == response'
    IN  /\ \A pk \in DOMAIN recipes : recipes'[pk].author = recipes[pk].author
        /\ (/\ r.op = "recipe_partial_update"
             /\ r.user \in Users
             /\ r.pk \in DOMAIN recipes
             /\ recipes[r.pk].author # r.user)
              => r.status # 200 /\ recipes' = recipes

\* C3: a partial-update request on recipe R by an authenticated caller who is
\* not R's author is refused and changes nothing, and no step changes the
\* author a recipe was created with.
C3_OwnerOnlyMutation == [][OwnerOnlyStep]_vars

\* ------------------------------------------------------------------ C4
\* C4: a create request by authenticated user A with a valid payload is
\* answered 201 with the read representation of the new recipe, whose author
\* is A whatever author id the payload carries.
C4_AuthorIsCaller ==
    (/\ response.op = "recipe_create"
     /\ response.user \in Users
     /\ response.payload.valid) =>
        /\ response.status = 201
        /\ Len(recipes) >= 1
        /\ recipes[Len(recipes)].author = response.user
        /\ response.body
              = <<[id |-> Len(recipes), author |-> response.user,
                   name |-> response.payload.name, tags |-> response.payload.tags]>>

\* A recipe was created by a caller whose payload named the other user.
C4_Witness ==
    /\ response.op = "recipe_create"
    /\ response.status = 201
    /\ response.user \in Users
    /\ response.payload.author # response.user
    /\ recipes[Len(recipes)].author = response.user

\* ------------------------------------------------------------------ C5, C6
\* What a membership flag filter is to return: the input recipes with a row
\* of the caller when the flag is truthy and the caller is logged in, the
\* input set otherwise.
FlagFilterExpected(table, r) ==
    IF r.param.present /\ r.param.value # 0 /\ r.user \in Users
    THEN {pk \in r.queryset : table[<<r.user, pk>>] > 0}
    ELSE r.queryset

\* C5: the is_in_shopping_cart filter returns exactly the input recipes with
\* a ShoppingCart row of the caller when the flag is truthy and the caller is
\* authenticated, and the unfiltered input set, without error, otherwise.
C5_CartFilter ==
    response.op = "filter_is_in_shopping_cart" =>
        /\ ~response.body.none
        /\ response.body.rows = FlagFilterExpected(shopping_cart, response)

\* C6: the is_favorited filter returns exactly the input recipes with a
\* FavoriteRecipe row of the caller when the flag is truthy and the caller is
\* authenticated, and the input set unchanged otherwise.
C6_FavoritedFilter ==
    response.op = "filter_is_favorited" =>
        /\ ~response.body.none
        /\ response.body.rows = FlagFilterExpected(favorites, response)

\* An authenticated caller filtered with is_favorited=1 and got a proper,
\* non-empty part of the input, one dropped recipe being another user's
\* favorite.
C6_Witness ==
    /\ response.op = "filter_is_favorited"
    /\ response.param.present /\ response.param.value = 1
    /\ response.user \in Users
    /\ response.body.rows # {}
    /\ \E pk \in response.queryset \ response.body.rows :
          \E u \in Users : favorites[<<u, pk>>] > 0

\* ------------------------------------------------------------------ C9
\* C9: filtering by a set S of tag slugs returns only recipes of the input
\* set that carry at least one slug of S, and every such recipe.
C9_TagsAnyOf ==
    (/\ response.op = "filter_tags"
     /\ response.status = 200
     /\ response.slugs # {}) =>
        /\ \A pk \in response.body :
              pk \in response.queryset /\ recipes[pk].tags \cap response.slugs # {}
        /\ \A pk \in response.queryset :
              recipes[pk].tags \cap response.slugs # {} => pk \in response.body

\* Two slugs were given; a recipe carrying only one of them is returned and
\* an untagged recipe is not.
C9_Witness ==
    /\ response.op = "filter_tags"
    /\ response.status = 200
    /\ Cardinality(response.slugs) = 2
    /\ \E pk \in response.body : Cardinality(recipes[pk].tags) = 1
    /\ \E pk \in response.queryset : pk \notin response.body

\* ------------------------------------------------------------------ C10
\* A string with every character case-folded.
LowerSeq(str) == [i \in 1..Len(str) |-> Lower(str[i])]

\* C10: ingredient search by name=p returns exactly the ingredients whose
\* name, case ignored, begins with p.
C10_PrefixIgnoringCase ==
    response.op = "ingredient_search" =>
        response.body
          = {name \in ingredients :
               /\ Len(response.name) <= Len(name)
               /\ LowerSeq(SubSeq(name, 1, Len(response.name)))
                     = LowerSeq(response.name)}

\* A search found a name that begins with the prefix in the other letter
\* case and left out a name that holds the prefix only after its first
\* character.
C10_Witness ==
    /\ response.op = "ingredient_search"
    /\ Len(response.name) >= 1
    /\ \E name \in response.body : name[1] # response.name[1]
    /\ \E name \in ingredients \ response.body : icontains(name, response.name)
====
